---- MODULE Spec2Model ----
(***************************************************************************)
(* Model of pkg/proto/rpc_visitor.go: the RPC declaration recognizer       *)
(* (RpcVisitor.CanVisit / RpcVisitor.Visit) and its option block scanner.  *)
(*                                                                         *)
(* Text is a sequence of one-character strings, so that the string         *)
(* operations of the source (HasPrefix, Index, Split, TrimSpace, Count,    *)
(* slicing, the regular expression) are computed character by character.   *)
(***************************************************************************)
EXTENDS Integers, Sequences, FiniteSets, TLC

VARIABLES
    lines,      \* the Lines the line source has produced so far, the matched
                \* declaration line (pulled by the dispatcher) first
    cursor,     \* number of lines pulled from the line source so far
    eof,        \* the line source has reported that it holds nothing after
                \* the lines produced so far
    namespace,  \* the namespace the dispatcher passes to Visit
    stack,      \* the active calls of Visit, outermost first
    status,     \* "idle" | "running" | "done" | "panic"
    err,        \* the place of the runtime failure, "" when there is none
    returned,   \* the Rpcs returned by the finished calls, in order of return
    previous,   \* the outcomes of the earlier runs over the same lines
    RpcLinePattern, \* the package-level variable of line 24: the pattern
                \* text a recognizer is compiled from
    visitors    \* the recognizer instances (RpcVisitor, lines 26-29)
                \* constructed so far, in order of construction

vars == <<lines, cursor, eof, namespace, stack, status, err, returned, previous,
          RpcLinePattern, visitors>>

-----------------------------------------------------------------------------
(* Bounds of the model.                                                    *)

MaxFollow == 4

MaxArgs == 2

MaxReruns == 1

MaxRerunLines == 4

-----------------------------------------------------------------------------
(* Characters and the string functions of package strings.                 *)

Space == " "

Tab == "\t"

Comma == ","

Period == "."

Semicolon == ";"

OpenBrace == "{"

CloseBrace == "}"

None == ""

\* White space that TLA+ strings cannot hold is named by its code point; a
\* text holds it as one character.
LineFeed == "\n"

CarriageReturn == "\r"

FormFeed == "\f"

VerticalTab == "U+000B"

NextLine == "U+0085"

NoBreakSpace == "U+00A0"

\* \s of package regexp: [\t\n\f\r ].
PatternSpaces == {Tab, LineFeed, FormFeed, CarriageReturn, Space}

IsPatternSpace(c) == c \in PatternSpaces

\* unicode.IsSpace, the white space strings.TrimSpace removes.
UnicodeSpaces ==
    PatternSpaces \cup
    {VerticalTab, NextLine, NoBreakSpace, "U+1680", "U+2000", "U+2001",
     "U+2002", "U+2003", "U+2004", "U+2005", "U+2006", "U+2007", "U+2008",
     "U+2009", "U+200A", "U+2028", "U+2029", "U+202F", "U+205F", "U+3000"}

IsSpace(c) == c \in UnicodeSpaces

WordChars ==
    {"a","b","c","d","e","f","g","h","i","j","k","l","m","n","o","p","q","r",
     "s","t","u","v","w","x","y","z","A","B","C","D","E","F","G","H","I","J",
     "K","L","M","N","O","P","Q","R","S","T","U","V","W","X","Y","Z","0","1",
     "2","3","4","5","6","7","8","9","_"}

IsWord(c) == c \in WordChars

HasPrefix(s, p) == Len(s) >= Len(p) /\ SubSeq(s, 1, Len(p)) = p

HasSuffix(s, p) == Len(s) >= Len(p) /\ SubSeq(s, Len(s) - Len(p) + 1, Len(s)) = p

\* strings.Index for a one-character needle: the 0-based index of the first
\* occurrence, -1 when there is none.
Index(s, c) ==
    IF \E i \in 1..Len(s) : s[i] = c
    THEN (CHOOSE i \in 1..Len(s) : s[i] = c /\ \A j \in 1..(i - 1) : s[j] # c) - 1
    ELSE -1

Contains(s, c) == \E i \in 1..Len(s) : s[i] = c

Count(s, c) == Cardinality({i \in 1..Len(s) : s[i] = c})

TrimLeft(s) ==
    LET k == CHOOSE j \in 1..(Len(s) + 1) :
                 /\ \A i \in 1..(j - 1) : IsSpace(s[i])
                 /\ (j = Len(s) + 1 \/ ~IsSpace(s[j]))
    IN SubSeq(s, k, Len(s))

TrimRight(s) ==
    LET k == CHOOSE j \in 0..Len(s) :
                 /\ \A i \in (j + 1)..Len(s) : IsSpace(s[i])
                 /\ (j = 0 \/ ~IsSpace(s[j]))
    IN SubSeq(s, 1, k)

TrimSpace(s) == TrimRight(TrimLeft(s))

\* strings.Split for a one-character separator: always at least one segment.
RECURSIVE Split(_, _)
Split(s, c) ==
    LET i == Index(s, c)
    IN IF i = -1
       THEN <<s>>
       ELSE <<SubSeq(s, 1, i)>> \o Split(SubSeq(s, i + 2, Len(s)), c)

\* The Go slice expression s[lo:hi] on 0-based offsets; it fails at run time
\* unless 0 <= lo <= hi <= len(s).
SliceOk(s, lo, hi) == 0 <= lo /\ lo <= hi /\ hi <= Len(s)

Slice(s, lo, hi) == SubSeq(s, lo + 1, hi)

-----------------------------------------------------------------------------
(* Keywords, as text.                                                      *)

kRpc == <<"r","p","c">>

kReturns == <<"r","e","t","u","r","n","s">>

kOption == <<"o","p","t","i","o","n">>

kMessage == <<"m","e","s","s","a","g","e">>

kService == <<"s","e","r","v","i","c","e">>

kStream == <<"s","t","r","e","a","m">>

-----------------------------------------------------------------------------
\* RpcLinePattern, matched as package regexp does (unanchored, leftmost match,
\* greedy quantifiers):
\*   rpc\s+(\w+)\s*\(\s*([^)]+)\s*\)\s+returns\s*\(\s*([^)]+)\s*\)(.*)
\* Positions are 1-based; the position Len(s)+1 is the end of the text.

\* The first position at or after i that holds no whitespace (\s* and \s+).
SkipSpace(s, i) ==
    CHOOSE j \in i..(Len(s) + 1) :
        /\ \A k \in i..(j - 1) : IsPatternSpace(s[k])
        /\ (j = Len(s) + 1 \/ ~IsPatternSpace(s[j]))

\* The first position at or after i that holds no word character (\w+).
SkipWord(s, i) ==
    CHOOSE j \in i..(Len(s) + 1) :
        /\ \A k \in i..(j - 1) : IsWord(s[k])
        /\ (j = Len(s) + 1 \/ ~IsWord(s[j]))

\* The first position at or after i that holds ")" ([^)]+ cannot cross it).
SkipArgs(s, i) ==
    CHOOSE j \in i..(Len(s) + 1) :
        /\ \A k \in i..(j - 1) : s[k] # ")"
        /\ (j = Len(s) + 1 \/ s[j] = ")")

\* \(\s*([^)]+)\s*\) with "(" expected at position open: the group and the
\* position of the closing parenthesis.  \s* is greedy but gives one character
\* back when the parentheses hold whitespace only; the greedy group keeps the
\* trailing whitespace.
ArgGroup(s, first, close) ==
    [ok |-> TRUE,
     text |-> SubSeq(s, IF first < close THEN first ELSE close - 1, close - 1),
     close |-> close]

ArgClause(s, open) ==
    IF open > Len(s) \/ s[open] # "("
    THEN [ok |-> FALSE, text |-> <<>>, close |-> 0]
    ELSE IF SkipArgs(s, open + 1) > Len(s) \/ SkipArgs(s, open + 1) = open + 1
    THEN [ok |-> FALSE, text |-> <<>>, close |-> 0]
    ELSE ArgGroup(s, SkipSpace(s, open + 1), SkipArgs(s, open + 1))

NoMatch == [ok |-> FALSE, values |-> <<>>]

\* What . can match from the start of t: it does not match a line feed.
UpToLineFeed(t) ==
    IF Contains(t, LineFeed) THEN SubSeq(t, 1, Index(t, LineFeed)) ELSE t

\* (.*): the rest of the text after the output clause, up to the first line
\* feed.
MatchTrailer(s, name, inp, outp) ==
    IF ~outp.ok
    THEN NoMatch
    ELSE [ok |-> TRUE,
          values |-> <<name, inp.text, outp.text,
                       UpToLineFeed(SubSeq(s, outp.close + 1, Len(s)))>>]

\* ...\s+returns\s*\(\s*([^)]+)\s*\)(.*) from the closing parenthesis of the
\* input clause on; h is the position after the whitespace that follows it.
MatchReturns(s, name, inp, h) ==
    IF h = inp.close + 1 \/ ~HasPrefix(SubSeq(s, h, Len(s)), kReturns)
    THEN NoMatch
    ELSE MatchTrailer(s, name, inp, ArgClause(s, SkipSpace(s, h + 7)))

\* The input clause inp has been matched (or not).
MatchInput(s, name, inp) ==
    IF ~inp.ok
    THEN NoMatch
    ELSE MatchReturns(s, name, inp, SkipSpace(s, inp.close + 1))

\* ...\s*\(\s*([^)]+)\s*\)... after the name, which spans positions b..c-1.
MatchName(s, b, c) ==
    IF c = b
    THEN NoMatch
    ELSE MatchInput(s, SubSeq(s, b, c - 1), ArgClause(s, SkipSpace(s, c)))

\* The match of RpcLinePattern that starts at position i, if there is one;
\* values[1..4] are the four groups (values[0], the whole match, is not used).
MatchAt(s, i) ==
    IF ~HasPrefix(SubSeq(s, i, Len(s)), kRpc) \/ SkipSpace(s, i + 3) = i + 3
    THEN NoMatch
    ELSE MatchName(s, SkipSpace(s, i + 3), SkipWord(s, SkipSpace(s, i + 3)))

MatchStarts(s) == {i \in 1..Len(s) : MatchAt(s, i).ok}

Leftmost(S) == CHOOSE i \in S : \A j \in S : i <= j

\* regexp.FindStringSubmatch: the leftmost match.
FindStringSubmatch(s) ==
    IF \A i \in 1..Len(s) : ~MatchAt(s, i).ok
    THEN NoMatch
    ELSE MatchAt(s, Leftmost(MatchStarts(s)))

\* The text RpcLinePattern holds when the package is loaded (line 24).
RpcLineExpr ==
    "rpc\\s+(\\w+)\\s*\\(\\s*([^)]+)\\s*\\)\\s+returns\\s*\\(\\s*([^)]+)\\s*\\)(.*)"

\* regexp.MustCompile: the program compiled from a pattern text.  A program
\* is determined by the text it was compiled from.
MustCompile(expr) == [expr |-> expr]

\* Lines 31-33: a new recognizer.  Its matcher is compiled from what the
\* package variable holds at the moment of construction; Visitors is left at
\* its zero value.
NewRpcVisitor ==
    [Visitors |-> <<>>, RpcLineMatcher |-> MustCompile(RpcLinePattern)]

\* The recognizer NewRpcVisitor builds while the package variable holds the
\* text of line 24.
LoadedRpcVisitor ==
    [Visitors |-> <<>>, RpcLineMatcher |-> MustCompile(RpcLineExpr)]

\* re.FindStringSubmatch(s) of a compiled program re.  The program of line 24
\* is the matcher above; the program of the empty text matches at the start
\* of every text and has no group; no other program is modelled.
FindStringSubmatchOf(re, s) ==
    IF re.expr = RpcLineExpr THEN FindStringSubmatch(s)
    ELSE IF re.expr = "" THEN [ok |-> TRUE, values |-> <<>>]
    ELSE NoMatch

\* re.MatchString(s)
MatchString(re, s) == FindStringSubmatchOf(re, s).ok

\* Lines 35-37: RpcVisitor.CanVisit of the recognizer rv.
CanVisitBy(rv, line) == MatchString(rv.RpcLineMatcher, line.Syntax)

\* RpcVisitor.CanVisit of a recognizer built from the pattern of line 24.
CanVisit(line) == CanVisitBy(LoadedRpcVisitor, line)

-----------------------------------------------------------------------------
(* Entities.                                                               *)

NewParameter(streaming, typeName) == [Stream |-> streaming, Type |-> typeName]

NewRpc(ns, name, comment) ==
    [Namespace |-> ns, Name |-> name, Comment |-> comment,
     InputParameters |-> <<>>, ReturnParameters |-> <<>>, Options |-> <<>>]

Join(sep, a, b) == a \o <<sep>> \o b

NewRpcOption(scope, name, index, body) ==
    [Scope |-> scope, Name |-> name, Index |-> index, Body |-> body]

AddRpcOption(rpc, opt) == [rpc EXCEPT !.Options = Append(@, opt)]

-----------------------------------------------------------------------------
(* ParseInArgs / ParseReturnArgs.                                          *)

\* One iteration of the loop over the segments: the test is made on the
\* segment as split (not trimmed); i[strings.Index(i, Space):] fails at run
\* time when the segment holds no space (the offset is -1).
ParseSegment(i) ==
    IF HasPrefix(i, kStream)
    THEN IF Index(i, Space) = -1
         THEN [ok |-> FALSE, param |-> NewParameter(TRUE, <<>>)]
         ELSE [ok |-> TRUE,
               param |-> NewParameter(TRUE,
                            TrimSpace(Slice(i, Index(i, Space), Len(i))))]
    ELSE [ok |-> TRUE, param |-> NewParameter(FALSE, TrimSpace(i))]

\* The parameters appended for the segments, up to the first failing one.
Prepend(p, rest) == [ok |-> rest.ok, params |-> <<p.param>> \o rest.params]

RECURSIVE ParseSegments(_)
ParseSegments(segs) ==
    IF segs = <<>>
    THEN [ok |-> TRUE, params |-> <<>>]
    ELSE IF ~ParseSegment(Head(segs)).ok
    THEN [ok |-> FALSE, params |-> <<>>]
    ELSE Prepend(ParseSegment(Head(segs)), ParseSegments(Tail(segs)))

AddInputParameters(rpc, r) ==
    [ok |-> r.ok, rpc |-> [rpc EXCEPT !.InputParameters = @ \o r.params]]

AddReturnParameters(rpc, r) ==
    [ok |-> r.ok, rpc |-> [rpc EXCEPT !.ReturnParameters = @ \o r.params]]

ParseInArgs(values, rpc) ==
    AddInputParameters(rpc, ParseSegments(Split(values[2], Comma)))

ParseReturnArgs(values, rpc) ==
    AddReturnParameters(rpc, ParseSegments(Split(values[3], Comma)))

-----------------------------------------------------------------------------
(* Lines.  A Line carries its text, its comment and the token that         *)
(* classifies its terminator.                                              *)

Token(text) ==
    IF HasSuffix(text, <<Semicolon>>) THEN Semicolon
    ELSE IF HasSuffix(text, <<OpenBrace>>) THEN OpenBrace
    ELSE IF HasSuffix(text, <<CloseBrace>>) THEN CloseBrace
    ELSE None

NewLine(text) ==
    [Syntax |-> TrimSpace(text), Comment |-> <<>>, Token |-> Token(TrimSpace(text))]

\* rpc <name>(<inArgs>) returns (<outArgs>)<trailer>
Decl(name, inArgs, outArgs, trailer) ==
    kRpc \o <<Space>> \o name \o <<"(">> \o inArgs \o <<")", Space>>
         \o kReturns \o <<Space, "(">> \o outArgs \o <<")">> \o trailer

\* option <head> = <value>
OptionText(head, value) == kOption \o <<Space>> \o head \o <<Space, "=", Space>> \o value

\* The lines a block can hold.
LinePool ==
    { NewLine(<<"}">>),                                          \* }
      NewLine(OptionText(<<"(","x",")">>, <<"1",";">>)),         \* option (x) = 1;
      NewLine(OptionText(<<"(","y",")">>, <<"a","=","b",";">>)), \* option (y) = a=b;
      NewLine(OptionText(<<"(","h",")">>, <<"{">>)),             \* option (h) = {
      NewLine(kOption \o <<Space,"(","z",")">>),                 \* option (z)
      NewLine(<<"p",":",Space,"1">>),                            \* p: 1
      NewLine(<<"b",":",Space,"2">>),                            \* b: 2
      NewLine(<<"}",";">>),                                      \* };
      NewLine(<<";">>),                                          \* ;
      NewLine(Decl(<<"G">>, <<"C">>, <<"D">>, <<Space,"{">>)),   \* rpc G(C) returns (D) {
      NewLine(Decl(<<"H">>, <<"C">>, <<"D">>, <<";">>)),         \* rpc H(C) returns (D);
      NewLine(Decl(<<"K">>, kStream \o <<"X">>, <<"D">>, <<";">>)),
                                                                 \* rpc K(streamX) returns (D);
      NewLine(kMessage \o <<Space,"M",Space,"{">>),              \* message M {
      NewLine(kService \o <<Space,"S",Space,"{">>),              \* service S {
      NewLine(OptionText(<<"d">>, <<"1",";">>)),                 \* option d = 1;
      NewLine(OptionText(<<")","x","(">>, <<"1",";">>)) }        \* option )x( = 1;

\* The segments an argument clause is made of.
SegPool ==
    { <<"A">>,
      <<Space,"B",Space>>,
      kStream \o <<Space,"A">>,
      <<Space>> \o kStream \o <<Space,"B">>,
      kStream \o <<"F">>,
      kStream \o <<Tab,"A">>,
      <<CarriageReturn,"A",NoBreakSpace>>,
      <<>> }

RECURSIVE JoinSegs(_)
JoinSegs(segs) ==
    IF Len(segs) = 1 THEN segs[1]
    ELSE segs[1] \o <<Comma>> \o JoinSegs(Tail(segs))

SeqsUpTo(S, n) == UNION {[1..k -> S] : k \in 1..n}

ArgTexts == {JoinSegs(segs) : segs \in SeqsUpTo(SegPool, MaxArgs)}

SimpleArgTexts == {<<"A">>, kStream \o <<Space,"B">>}

Trailers == {<<Semicolon>>, <<Space, OpenBrace>>, <<>>}

\* The declaration lines the dispatcher hands to Visit.
DeclPool ==
    { NewLine(Decl(<<"F">>, i, o, t)) :
        i \in ArgTexts, o \in SimpleArgTexts, t \in Trailers }
    \cup
    { NewLine(Decl(<<"F">>, i, o, t)) :
        i \in SimpleArgTexts, o \in ArgTexts, t \in Trailers }

Namespaces == {<<>>, <<"p">>}

-----------------------------------------------------------------------------
(* RpcVisitor.Visit, one call per frame of the stack.                      *)
(*                                                                         *)
(* state: "ScanningBlock"       in the outer loop, about to pull a line    *)
(*        "AccumulatingOption"  in the inner loop, about to pull a line    *)
(*        "Delegated"           past the hand-off of line 115-119          *)
(*        "Done"                about to return out                        *)
(* end:   why the call stopped pulling lines ("" while it has not)         *)

NewFrame(in, ns, out, at) ==
    [in |-> in, namespace |-> ns, out |-> out, start |-> at,
     state |-> IF in.Token = Semicolon THEN "Done" ELSE "ScanningBlock",
     end |-> IF in.Token = Semicolon THEN "blockless" ELSE "",
     optionName |-> <<>>, optionBody |-> <<>>, braceCount |-> 0]

\* Lines 64-72: the declaration step and the block decision.  err names the
\* call that failed at run time.
Entered(in, ns, at, a, b) ==
    [err   |-> IF ~a.ok THEN "ParseInArgs"
               ELSE IF ~b.ok THEN "ParseReturnArgs" ELSE "",
     frame |-> NewFrame(in, ns, b.rpc, at)]

EnterReturnArgs(in, ns, at, values, a) ==
    Entered(in, ns, at, a, ParseReturnArgs(values, a.rpc))

EnterInArgs(in, ns, at, values) ==
    EnterReturnArgs(in, ns, at, values,
                    ParseInArgs(values, NewRpc(ns, values[1], in.Comment)))

\* Line 65: values[1] is out of range when the match captured no group.
EnterValues(in, ns, at, values) ==
    IF Len(values) = 0
    THEN [err |-> "values", frame |-> <<>>]
    ELSE EnterInArgs(in, ns, at, values)

\* Line 64: the recognizer rv matches the line with its own matcher.
Enter(rv, in, ns, at) ==
    EnterValues(in, ns, at,
                FindStringSubmatchOf(rv.RpcLineMatcher, in.Syntax).values)

\* Line 84: line.Syntax[strings.Index(line.Syntax, "(")+1 : strings.Index(line.Syntax, ")")]
OptionNameOk(syntax) == SliceOk(syntax, Index(syntax, "(") + 1, Index(syntax, ")"))

OptionName(syntax) == Slice(syntax, Index(syntax, "(") + 1, Index(syntax, ")"))

\* Lines 85-96: the initial option body, taken from the option line.
InitialBody(syntax) ==
    IF Contains(syntax, "=") /\ Len(Split(syntax, "=")) > 1
    THEN TrimSpace(Split(syntax, "=")[2])
    ELSE <<>>

\* Lines 93-94 and 130-131: count of "{" minus count of "}".
BraceDelta(text) == Count(text, OpenBrace) - Count(text, CloseBrace)

\* Lines 103-105: the pulled line starts a new top-level construct.
StartsConstruct(line) ==
    \/ HasPrefix(TrimSpace(line.Syntax), kRpc)
    \/ HasPrefix(TrimSpace(line.Syntax), kMessage)
    \/ HasPrefix(TrimSpace(line.Syntax), kService)

\* A scanner without the test for a line that is just a semicolon.
IsBareTerminatorNever(line) == FALSE

\* Line 123: the pulled line is just a semicolon.
IsBareTerminator(line) == TrimSpace(line.Syntax) = <<Semicolon>>

\* A scanner that ends the option on any statement-end token.
OptionCompleteAnyDepth(line, count) == line.Token = Semicolon

\* Line 134: the end of the option has been reached.
OptionComplete(line, count) == line.Token = Semicolon /\ count = 0

\* A scanner that drops the accumulated option.
FlushDropped(f) == f.out

\* A scanner that records the accumulated option whatever its body.
FlushAlways(f) ==
    AddRpcOption(f.out,
        NewRpcOption(Join(Period, f.namespace, f.out.Name),
                     f.optionName, <<>>, f.optionBody))

\* A scanner that scopes the option to the rpc name alone.
FlushUnqualified(f) ==
    IF Len(TrimSpace(f.optionBody)) > 0
    THEN AddRpcOption(f.out,
             NewRpcOption(f.out.Name, f.optionName, <<>>, f.optionBody))
    ELSE f.out

\* Lines 107-113 and 138-144: record the accumulated option if its trimmed
\* body is not empty.
Flush(f) ==
    IF Len(TrimSpace(f.optionBody)) > 0
    THEN AddRpcOption(f.out,
             NewRpcOption(Join(Period, f.namespace, f.out.Name),
                          f.optionName, <<>>, f.optionBody))
    ELSE f.out

\* Back in the outer loop, the locals of the option branch gone.
ToScanning(f, out) ==
    [f EXCEPT !.out = out, !.state = "ScanningBlock",
              !.optionName = <<>>, !.optionBody = <<>>, !.braceCount = 0]

Top == stack[Len(stack)]

SetTop(f) == [stack EXCEPT ![Len(stack)] = f]

\* scanner.Scan() returns true and scanner.ReadLine() returns line: the line
\* at the cursor, which the source produces now unless an earlier run over
\* the same lines has read it already.
Pull(line) ==
    /\ ~(eof /\ cursor = Len(lines))
    /\ IF cursor < Len(lines)
       THEN /\ line = lines[cursor + 1]
            /\ lines' = lines
       ELSE /\ Len(lines) <= MaxFollow
            /\ lines' = Append(lines, line)
    /\ cursor' = cursor + 1
    /\ eof' = eof

\* scanner.Scan() returns false.
Exhausted ==
    /\ cursor = Len(lines)
    /\ eof' = TRUE
    /\ UNCHANGED <<lines, cursor>>

\* A run-time failure at where, with the active calls as st shows them.
Panic(where, st) ==
    /\ status' = "panic"
    /\ err' = where
    /\ stack' = st
    /\ UNCHANGED returned

\* A call of Visit made with the calls of base active: it fails in its
\* declaration step, or becomes the innermost call.
Call(e, base) ==
    IF e.err # ""
    THEN Panic(e.err, base)
    ELSE /\ stack' = Append(base, e.frame)
         /\ status' = "running"
         /\ UNCHANGED <<err, returned>>

\* A constructor that takes the pattern text out of the package variable:
\* the variable is empty once a recognizer has been compiled from it.
ConstructConsuming ==
    /\ visitors' = Append(visitors, NewRpcVisitor)
    /\ RpcLinePattern' = ""

\* Lines 31-33 as a step: NewRpcVisitor allocates a recognizer and leaves
\* the package variable as it is.
Construct ==
    /\ visitors' = Append(visitors, NewRpcVisitor)
    /\ UNCHANGED RpcLinePattern

\* A scanner that never invokes the new recognizer.
HandOffNever(line, f) ==
    /\ Construct
    /\ stack' = SetTop(f)
    /\ UNCHANGED <<status, err, returned>>

\* Lines 106-119: flush the option, then construct a new recognizer (line
\* 115) and hand the line to it if its matcher accepts it; f is the caller
\* past the flush.
HandOff(line, f) ==
    /\ Construct
    /\ IF CanVisitBy(visitors'[Len(visitors')], line)
       THEN Call(Enter(visitors'[Len(visitors')], line, f.namespace,
                       cursor + 1),
                 SetTop(f))
       ELSE /\ stack' = SetTop(f)
            /\ UNCHANGED <<status, err, returned>>

\* Lines 127-136: append the line to the option body; g is the call with the
\* line appended.
Accumulate(line, g) ==
    /\ stack' = SetTop(IF OptionComplete(line, g.braceCount)
                       THEN ToScanning(g, Flush(g))
                       ELSE g)
    /\ UNCHANGED <<status, err, returned, RpcLinePattern, visitors>>

\* The dispatcher calls Visit of its recognizer, the one constructed last,
\* on the declaration line it has pulled.
Visit ==
    /\ status = "idle"
    /\ Call(Enter(visitors[Len(visitors)], lines[1], namespace, 1), <<>>)
    /\ UNCHANGED <<lines, cursor, eof, namespace, previous,
                   RpcLinePattern, visitors>>

\* A scanner whose outer loop hands a line that begins with rpc, message or
\* service to a new recognizer, as its inner loop does.
ScanLineDelegating(line) ==
    /\ status = "running"
    /\ Top.state = "ScanningBlock"
    /\ Pull(line)
    /\ IF line.Token = CloseBrace
       THEN /\ stack' = SetTop([Top EXCEPT !.state = "Done", !.end = "close"])
            /\ UNCHANGED <<status, err, returned, RpcLinePattern, visitors>>
       ELSE IF StartsConstruct(line)
       THEN HandOff(line, [Top EXCEPT !.state = "Delegated", !.end = "delegated"])
       ELSE IF HasPrefix(line.Syntax, kOption)
       THEN IF ~OptionNameOk(line.Syntax)
            THEN /\ Panic("optionName", stack)
                 /\ UNCHANGED <<RpcLinePattern, visitors>>
            ELSE /\ stack' = SetTop([Top EXCEPT
                        !.state = "AccumulatingOption",
                        !.optionName = OptionName(line.Syntax),
                        !.optionBody = InitialBody(line.Syntax),
                        !.braceCount = BraceDelta(InitialBody(line.Syntax))])
                 /\ UNCHANGED <<status, err, returned, RpcLinePattern,
                                visitors>>
       ELSE UNCHANGED <<stack, status, err, returned, RpcLinePattern, visitors>>
    /\ UNCHANGED <<namespace, previous>>

\* Lines 74-96: one turn of the outer loop on a pulled line.
ScanLine(line) ==
    /\ status = "running"
    /\ Top.state = "ScanningBlock"
    /\ Pull(line)
    /\ IF line.Token = CloseBrace
       THEN /\ stack' = SetTop([Top EXCEPT !.state = "Done", !.end = "close"])
            /\ UNCHANGED <<status, err, returned>>
       ELSE IF HasPrefix(line.Syntax, kOption)
       THEN IF ~OptionNameOk(line.Syntax)
            THEN Panic("optionName", stack)
            ELSE /\ stack' = SetTop([Top EXCEPT
                        !.state = "AccumulatingOption",
                        !.optionName = OptionName(line.Syntax),
                        !.optionBody = InitialBody(line.Syntax),
                        !.braceCount = BraceDelta(InitialBody(line.Syntax))])
                 /\ UNCHANGED <<status, err, returned>>
       ELSE UNCHANGED <<stack, status, err, returned>>
    /\ UNCHANGED <<namespace, previous, RpcLinePattern, visitors>>

\* Lines 74 and 148: the source is exhausted in the outer loop.
ScanEnd ==
    /\ status = "running"
    /\ Top.state = "ScanningBlock"
    /\ Exhausted
    /\ stack' = SetTop([Top EXCEPT !.state = "Done", !.end = "eof"])
    /\ UNCHANGED <<namespace, status, err, returned, previous,
                   RpcLinePattern, visitors>>

\* Lines 99-145: one turn of the inner loop on a pulled line.
AccumLine(line) ==
    /\ status = "running"
    /\ Top.state = "AccumulatingOption"
    /\ Pull(line)
    /\ IF StartsConstruct(line)
       THEN HandOff(line, [ToScanning(Top, Flush(Top)) EXCEPT
                              !.state = "Delegated", !.end = "delegated"])
       ELSE IF IsBareTerminator(line)
       THEN /\ stack' = SetTop(ToScanning(Top, Flush(Top)))
            /\ UNCHANGED <<status, err, returned, RpcLinePattern, visitors>>
       ELSE Accumulate(line, [Top EXCEPT
                                 !.optionBody = @ \o line.Syntax,
                                 !.braceCount = @ + BraceDelta(line.Syntax)])
    /\ UNCHANGED <<namespace, previous>>

\* Lines 99 and 138-145: the source is exhausted in the inner loop.
AccumEnd ==
    /\ status = "running"
    /\ Top.state = "AccumulatingOption"
    /\ Exhausted
    /\ stack' = SetTop(ToScanning(Top, Flush(Top)))
    /\ UNCHANGED <<namespace, status, err, returned, previous,
                   RpcLinePattern, visitors>>

\* A scanner whose delegate reads from a copy of the line source: when the
\* delegate returns, the caller's source is where the hand-off left it.
ReturnRewinding ==
    /\ status = "running"
    /\ Top.state \in {"Done", "Delegated"}
    /\ stack' = SubSeq(stack, 1, Len(stack) - 1)
    /\ returned' = Append(returned, Top.out)
    /\ status' = IF Len(stack) = 1 THEN "done" ELSE "running"
    /\ cursor' = IF Len(stack) = 1 THEN cursor ELSE Top.start
    /\ UNCHANGED <<lines, eof, namespace, err, previous,
                   RpcLinePattern, visitors>>

\* A scanner whose hand-off takes over the options of the Rpc its delegate
\* returns.
ReturnAdopting ==
    /\ status = "running"
    /\ Top.state \in {"Done", "Delegated"}
    /\ stack' = IF Len(stack) = 1
                THEN <<>>
                ELSE [SubSeq(stack, 1, Len(stack) - 1) EXCEPT
                         ![Len(stack) - 1].out.Options = @ \o Top.out.Options]
    /\ returned' = Append(returned, Top.out)
    /\ status' = IF Len(stack) = 1 THEN "done" ELSE "running"
    /\ UNCHANGED <<lines, cursor, eof, namespace, err, previous,
                   RpcLinePattern, visitors>>

\* Lines 71, 119 and 148: return out.  The caller of a delegate drops the
\* value and returns its own Rpc in its next step.
Return ==
    /\ status = "running"
    /\ Top.state \in {"Done", "Delegated"}
    /\ stack' = SubSeq(stack, 1, Len(stack) - 1)
    /\ returned' = Append(returned, Top.out)
    /\ status' = IF Len(stack) = 1 THEN "done" ELSE "running"
    /\ UNCHANGED <<lines, cursor, eof, namespace, err, previous,
                   RpcLinePattern, visitors>>

-----------------------------------------------------------------------------
(* Specifications.                                                         *)

\* The declarations that start the block scans.
BlockDecls ==
    { NewLine(Decl(<<"F">>, <<"A">>, <<"B">>, <<Space, OpenBrace>>)),
      NewLine(Decl(<<"F">>, <<"A">>, <<"B">>, <<Semicolon>>)),
      NewLine(Decl(<<"F">>, kStream \o <<"A">>, <<"B">>, <<Semicolon>>)) }

InitWith(decls) ==
    /\ lines \in {<<d>> : d \in {x \in decls : CanVisit(x)}}
    /\ cursor = 1
    /\ eof = FALSE
    /\ namespace \in Namespaces
    /\ stack = <<>>
    /\ status = "idle"
    /\ err = ""
    /\ returned = <<>>
    /\ previous = <<>>
    /\ RpcLinePattern = RpcLineExpr
    /\ visitors = <<NewRpcVisitor>>

Init == InitWith(BlockDecls)

Next ==
    \/ Visit
    \/ \E line \in LinePool : ScanLine(line)
    \/ ScanEnd
    \/ \E line \in LinePool : AccumLine(line)
    \/ AccumEnd
    \/ Return

Spec == Init /\ [][Next]_vars

\* The declaration step alone, over the argument clauses: the line source
\* holds nothing after the declaration line.
InitArgs == InitWith(DeclPool)

NextArgs ==
    \/ Visit
    \/ ScanEnd
    \/ Return

SpecArgs == InitArgs /\ [][NextArgs]_vars

\* What a run leaves behind: how it ended, the Rpcs its calls returned and
\* the position of the cursor.
Outcome ==
    [status |-> status, err |-> err, returned |-> returned, cursor |-> cursor]

\* The dispatcher runs Visit once more on the same declaration line and the
\* same namespace, with a recognizer it constructs for this run (lines
\* 31-33) and a line source that produces the same lines again from the
\* start.  The recognizers of the earlier run and the package variable stay
\* as that run left them.
Rerun ==
    /\ status \in {"done", "panic"}
    /\ Len(previous) < MaxReruns
    /\ previous' = Append(previous, Outcome)
    /\ Construct
    /\ cursor' = 1
    /\ stack' = <<>>
    /\ status' = "idle"
    /\ err' = ""
    /\ returned' = <<>>
    /\ UNCHANGED <<lines, eof, namespace>>

NextRerun ==
    \/ Next /\ Len(lines') <= MaxRerunLines
    \/ Rerun

SpecRerun == Init /\ [][NextRerun]_vars

-----------------------------------------------------------------------------
(* Properties.                                                             *)

\* The Rpc the outermost call returned (the outermost call returns last).
TopRpc == returned[Len(returned)]

\* The captured groups of the declaration line the dispatcher matched.
DeclValues == FindStringSubmatch(lines[1].Syntax).values

LastLine == lines[Len(lines)]

ParseErrors == {"ParseInArgs", "ParseReturnArgs"}

\* What the parameter-list parser is specified to produce for one segment:
\* the test for the keyword is made on the trimmed segment, and the type name
\* of a streaming parameter is what follows the first whitespace.
AfterFirstSpace(t) ==
    IF \E k \in 1..Len(t) : IsSpace(t[k])
    THEN TrimSpace(SubSeq(t, CHOOSE k \in 1..Len(t) :
                                 IsSpace(t[k]) /\ \A j \in 1..(k - 1) : ~IsSpace(t[j]),
                          Len(t)))
    ELSE <<>>

SpecifiedParameter(seg) ==
    IF HasPrefix(TrimSpace(seg), kStream)
    THEN [Stream |-> TRUE, Type |-> AfterFirstSpace(TrimSpace(seg))]
    ELSE [Stream |-> FALSE, Type |-> TrimSpace(seg)]

SpecifiedParameters(text) ==
    [i \in 1..Len(Split(text, Comma)) |-> SpecifiedParameter(Split(text, Comma)[i])]

\* The option statements of a block body, as the grammar delimits them: a
\* statement starts on an option line with a parenthesis pair and ends on the
\* first line that ends with ";" at brace depth zero.
RECURSIVE Depth(_)
Depth(ls) == IF ls = <<>> THEN 0 ELSE BraceDelta(Head(ls).Syntax) + Depth(Tail(ls))

StatementEnds(ls) ==
    {n \in 1..Len(ls) : ls[n].Token = Semicolon /\ Depth(SubSeq(ls, 1, n)) = 0}

IsContinuation(l) ==
    /\ ~HasPrefix(l.Syntax, kOption)
    /\ ~StartsConstruct(l)
    /\ l.Syntax # <<Semicolon>>

RECURSIVE Statements(_)
Statements(ls) ==
    IF ls = <<>>
    THEN [ok |-> TRUE, stmts |-> <<>>]
    ELSE IF \/ ~HasPrefix(ls[1].Syntax, kOption)
            \/ ~OptionNameOk(ls[1].Syntax)
            \/ ~Contains(ls[1].Syntax, "=")
            \/ StatementEnds(ls) = {}
    THEN [ok |-> FALSE, stmts |-> <<>>]
    ELSE LET n    == Leftmost(StatementEnds(ls))
             rest == Statements(SubSeq(ls, n + 1, Len(ls)))
         IN [ok    |-> rest.ok /\ \A i \in 2..n : IsContinuation(ls[i]),
             stmts |-> <<SubSeq(ls, 1, n)>> \o rest.stmts]

RECURSIVE TextOf(_)
TextOf(ls) == IF ls = <<>> THEN <<>> ELSE Head(ls).Syntax \o TextOf(Tail(ls))

AfterFirstEquals(s) == TrimSpace(SubSeq(s, Index(s, "=") + 2, Len(s)))

StatementName(stmt) ==
    SubSeq(stmt[1].Syntax, Index(stmt[1].Syntax, "(") + 2, Index(stmt[1].Syntax, ")"))

StatementBody(stmt) == AfterFirstEquals(stmt[1].Syntax) \o TextOf(Tail(stmt))

\* The pulled lines are a declaration that opens a block, k >= 1 complete
\* option statements and the block-close line.
BlockBody == SubSeq(lines, 2, Len(lines) - 1)

IsBlockOfStatements ==
    /\ Len(lines) >= 3
    /\ lines[1].Token = OpenBrace
    /\ LastLine.Syntax = <<CloseBrace>>
    /\ Statements(BlockBody).ok

\* C1: for a block of k >= 1 complete option statements followed by the
\* block-close line, Visit returns an Rpc with exactly k RpcOptions, in source
\* order, the i-th holding the name and the body of the i-th statement only.
C1_OneOptionPerStatement ==
    (status = "done" /\ IsBlockOfStatements) =>
        /\ Len(TopRpc.Options) = Len(Statements(BlockBody).stmts)
        /\ \A i \in 1..Len(TopRpc.Options) :
              /\ TopRpc.Options[i].Name = StatementName(Statements(BlockBody).stmts[i])
              /\ TopRpc.Options[i].Body = StatementBody(Statements(BlockBody).stmts[i])

\* C2: every comma-separated segment whose trimmed text begins with "stream"
\* yields a streaming Parameter typed by the remainder after the first
\* whitespace, every other segment a non-streaming Parameter typed by the
\* trimmed segment, in declaration order, for inputs and outputs alike.
C2_ParameterLists ==
    status = "done" =>
        /\ TopRpc.InputParameters = SpecifiedParameters(DeclValues[2])
        /\ TopRpc.ReturnParameters = SpecifiedParameters(DeclValues[3])

\* C3: the block scanner has no hard-failure outcome: once the block scan of a
\* matched declaration has begun, no line that follows, an option line without
\* a parenthesis pair included, leads to a runtime failure.
C3_NoHardFailure == status = "panic" => stack = <<>>

\* C4: the parameter-list parser raises no error for any segment and appends
\* exactly one Parameter per comma-separated segment.
C4_ParserCompletes ==
    /\ status = "panic" => err \notin ParseErrors
    /\ status = "running" =>
          /\ Len(stack[1].out.InputParameters) = Len(Split(DeclValues[2], Comma))
          /\ Len(stack[1].out.ReturnParameters) = Len(Split(DeclValues[3], Comma))

-----------------------------------------------------------------------------
(* Steps of the accumulation loop, for the properties about it.            *)

\* The innermost call is in the accumulation loop and this step pulls a line.
AccumPull ==
    /\ status = "running"
    /\ Top.state = "AccumulatingOption"
    /\ Len(lines') = Len(lines) + 1

\* The line this step pulls.
Pulled == lines'[Len(lines')]

\* The call that pulls in this step, after the step.
Puller == stack'[Len(stack)]

\* The RpcOption that records the option being accumulated, with more text
\* appended to its body.
Accumulated(more) ==
    [Scope |-> Top.namespace \o <<Period>> \o Top.out.Name,
     Name  |-> Top.optionName,
     Index |-> <<>>,
     Body  |-> Top.optionBody \o more]

\* The options of the pulling call, with the accumulated option recorded if
\* its trimmed body is not empty.
Flushed ==
    IF TrimSpace(Top.optionBody) # <<>>
    THEN Append(Top.out.Options, Accumulated(<<>>))
    ELSE Top.out.Options

\* C5: when the accumulation loop pulls a line that begins (after trimming) with
\* rpc, the scanner (a) records the option accumulated so far if its trimmed
\* body is not empty, (b) appends nothing more to the current Rpc's options and
\* (c) returns the current Rpc without raising an error.
C5_RecoveryFromUnterminatedOption ==
    [][ /\ (AccumPull /\ HasPrefix(TrimSpace(Pulled.Syntax), kRpc)) =>
              /\ status' # "panic"
              /\ Len(stack') >= Len(stack)
              /\ Puller.state = "Delegated"
              /\ Puller.out.Options = Flushed
        /\ \A i \in 1..Len(stack) :
              (stack[i].state = "Delegated" /\ i <= Len(stack')) =>
                  stack'[i].out = stack[i].out
      ]_vars

\* C6: when the accumulation loop pulls a line that begins with rpc, message or
\* service, a new recognizer is invoked on that very line, with the caller's
\* namespace and the shared line source, exactly when its matcher accepts the
\* line; when the matcher rejects it no recognizer is invoked, and Visit
\* returns right after the flush.
C6_HandOff ==
    [][ /\ (AccumPull /\ StartsConstruct(Pulled)) =>
              IF CanVisit(Pulled)
              THEN \/ /\ status' = "panic"
                      /\ err' \in ParseErrors
                   \/ /\ status' = "running"
                      /\ Len(stack') = Len(stack) + 1
                      /\ Puller.state = "Delegated"
                      /\ stack'[Len(stack')].in = Pulled
                      /\ stack'[Len(stack')].namespace = Top.namespace
                      /\ stack'[Len(stack')].start = cursor'
                      /\ cursor' = cursor + 1
              ELSE /\ status' = "running"
                   /\ Len(stack') = Len(stack)
                   /\ Puller.state = "Delegated"
                   /\ Puller.out.Options = Flushed
        /\ (status = "running" /\ Top.state = "Delegated") =>
              /\ stack' = SubSeq(stack, 1, Len(stack) - 1)
              /\ returned' = Append(returned, Top.out)
              /\ lines' = lines
      ]_vars

\* A delegate recognizer is active on the line its caller pulled.
C6_Witness ==
    /\ status = "running"
    /\ Len(stack) = 2
    /\ stack[1].state = "Delegated"
    /\ stack[2].state = "ScanningBlock"
    /\ stack[2].start = cursor
    /\ stack[2].in = lines[cursor]
    /\ stack[2].namespace = stack[1].namespace

\* The value of the option being accumulated opens with a brace.
OpensBrace == HasPrefix(Top.optionBody, <<OpenBrace>>)

\* The running brace depth: count of "{" minus count of "}" over the initial
\* text and all appended lines, the pulled one included.
RunningDepth == BraceDelta(Top.optionBody \o Pulled.Syntax)

\* The accumulation goes on, the pulled line appended.
Continues ==
    /\ status' = "running"
    /\ Len(stack') = Len(stack)
    /\ Puller.state = "AccumulatingOption"
    /\ Puller.optionBody = Top.optionBody \o Pulled.Syntax
    /\ Puller.out = Top.out

\* The accumulation stops and a single RpcOption is recorded, whose body holds
\* the text of every body line.
Completes(more) ==
    /\ status' = "running"
    /\ Len(stack') = Len(stack)
    /\ Puller.state = "ScanningBlock"
    /\ Puller.out.Options = Append(Top.out.Options, Accumulated(more))

\* C7 as claimed: for an option whose value opens a brace, accumulation does
\* not stop at any line while the running brace depth is non-zero, and stops
\* at the first line that ends with a statement-end token with the depth back
\* to zero, producing a single RpcOption whose body contains the text of every
\* body line.
C7_StopsOnlyAtDepthZero ==
    [][ (AccumPull /\ OpensBrace) =>
            IF RunningDepth = 0 /\ Pulled.Token = Semicolon
            THEN Completes(IF Pulled.Syntax = <<Semicolon>> THEN <<>> ELSE Pulled.Syntax)
            ELSE Continues
      ]_vars

\* C7 as amended: the same, for every pulled line that is neither a bare ";"
\* nor begins with rpc, message or service.
C7_StopsOnlyAtDepthZeroOnBodyLines ==
    [][ (/\ AccumPull
         /\ OpensBrace
         /\ TrimSpace(Pulled.Syntax) # <<Semicolon>>
         /\ ~HasPrefix(TrimSpace(Pulled.Syntax), kRpc)
         /\ ~HasPrefix(TrimSpace(Pulled.Syntax), kMessage)
         /\ ~HasPrefix(TrimSpace(Pulled.Syntax), kService)) =>
            IF RunningDepth = 0 /\ Pulled.Token = Semicolon
            THEN Completes(Pulled.Syntax)
            ELSE Continues
      ]_vars

\* The option  option (h) = {  /  p: 1  /  b: 2  /  };  has been recorded as
\* one RpcOption.
C7_Witness ==
    /\ status = "running"
    /\ Top.state = "ScanningBlock"
    /\ Len(lines) = 5
    /\ lines[2].Token = OpenBrace
    /\ Len(Top.out.Options) = 1
    /\ Top.out.Options[1].Name = <<"h">>
    /\ Top.out.Options[1].Body =
           <<"{">> \o lines[3].Syntax \o lines[4].Syntax \o <<"}", ";">>
    /\ lines[3].Syntax # lines[4].Syntax
    /\ BraceDelta(lines[3].Syntax) = 0
    /\ BraceDelta(lines[4].Syntax) = 0

\* C8: when the matched declaration line ends with a statement-end token, Visit
\* returns at once, pulls no line, and returns an Rpc without options; for
\* rpc F(A) returns (B); the Rpc has one non-streaming input of type A and one
\* non-streaming output of type B.
C8_BlockLess ==
    (lines[1].Token = Semicolon /\ status # "idle") =>
        /\ status # "panic"
        /\ cursor = 1 /\ Len(lines) = 1 /\ ~eof
        /\ status = "running" =>
              /\ Len(stack) = 1
              /\ Top.state = "Done"
              /\ Top.out.Options = <<>>
        /\ status = "done" =>
              /\ Len(returned) = 1
              /\ TopRpc.Options = <<>>
              /\ (DeclValues[2] = <<"A">> /\ DeclValues[3] = <<"B">>) =>
                    /\ TopRpc.InputParameters = <<[Stream |-> FALSE, Type |-> <<"A">>]>>
                    /\ TopRpc.ReturnParameters = <<[Stream |-> FALSE, Type |-> <<"B">>]>>

\* C9: when the line source is exhausted before a block-close line is seen, in
\* the outer loop or in the middle of an option, Visit pulls no more and
\* returns the Rpc with the options completed so far, plus the option being
\* accumulated if its trimmed body is not empty; no failure is signalled.
C9_EndOfInput ==
    [][ /\ (status = "running" /\ Top.state = "AccumulatingOption" /\ eof') =>
              /\ lines' = lines
              /\ status' = "running"
              /\ Len(stack') = Len(stack)
              /\ Puller.state = "ScanningBlock"
              /\ Puller.out.Options = Flushed
        /\ (status = "running" /\ Top.state = "ScanningBlock" /\ eof') =>
              /\ lines' = lines
              /\ status' = "running"
              /\ Len(stack') = Len(stack)
              /\ Puller.state = "Done"
              /\ Puller.out = Top.out
        /\ (status = "running" /\ Top.state = "Done") =>
              /\ lines' = lines
              /\ returned' = Append(returned, Top.out)
              /\ status' = IF Len(stack) = 1 THEN "done" ELSE "running"
        /\ eof => (eof' /\ lines' = lines /\ cursor' = cursor /\ status' # "panic")
      ]_vars

\* The input ran out in the middle of the option  option (h) = {  /  p: 1 ,
\* and Visit has returned the Rpc with that option recorded.
C9_Witness ==
    /\ status = "done"
    /\ eof
    /\ Len(lines) = 3
    /\ Len(TopRpc.Options) = 1
    /\ TopRpc.Options[1].Body = <<"{">> \o lines[3].Syntax
    /\ lines[3].Token = None

\* C10: every call of Visit returns (the run is never stuck short of the return
\* of the outermost call: a step is enabled whenever status is "idle" or
\* "running"); a call stops pulling lines only on a
\* block-close line seen in the outer loop, on the end of the input or on a
\* hand-off; every delegate call starts strictly later in the source than its
\* caller, so the depth of the recursion is bounded by the lines pulled.
C10_Termination ==
    /\ status \in {"idle", "running", "done"}
    /\ \A i \in 1..Len(stack) :
          /\ stack[i].state \in {"Done", "Delegated"} =>
                stack[i].end \in {"blockless", "close", "eof", "delegated"}
          /\ i > 1 => stack[i].start > stack[i - 1].start
          /\ stack[i].start <= cursor
    /\ Len(stack) <= cursor

-----------------------------------------------------------------------------
(* The scope path of the recorded options.                                 *)

\* Every option of rpc is scoped to ns, a period and the name of rpc.
ScopedToOwner(rpc, ns) ==
    \A k \in 1..Len(rpc.Options) :
        rpc.Options[k].Scope = ns \o <<Period>> \o rpc.Name

\* C11: every RpcOption appended to an Rpc, on the normal completion path and
\* on the delegation flush path alike, has scope path namespace + "." + the
\* name of the Rpc it is appended to, for every namespace, the empty one
\* included; an option recorded by a delegate recognizer is scoped to the
\* delegate's rpc name, never to the original's.
C11_ScopePath ==
    /\ \A i \in 1..Len(stack) :
          /\ stack[i].namespace = namespace
          /\ stack[i].out.Namespace = namespace
          /\ stack[i].out.Name = FindStringSubmatch(stack[i].in.Syntax).values[1]
          /\ ScopedToOwner(stack[i].out, namespace)
    /\ \A i \in 1..Len(returned) :
          /\ returned[i].Namespace = namespace
          /\ ScopedToOwner(returned[i], namespace)

\* With the empty namespace, the original has recorded an option on the
\* delegation flush path and its delegate one on the normal completion path.
C11_Witness ==
    /\ namespace = <<>>
    /\ status = "running"
    /\ Len(stack) = 2
    /\ stack[1].state = "Delegated"
    /\ Len(stack[1].out.Options) = 1
    /\ stack[1].out.Options[1].Scope = <<Period>> \o stack[1].out.Name
    /\ stack[2].state = "ScanningBlock"
    /\ Len(stack[2].out.Options) = 1
    /\ stack[2].out.Options[1].Scope = <<Period>> \o stack[2].out.Name
    /\ stack[2].out.Name # stack[1].out.Name

-----------------------------------------------------------------------------
(* Two runs over the same lines.                                           *)

\* The second run has ended as the first did: the same end, the same Rpcs
\* returned in the same order and the cursor at the same position.
RunsAgree ==
    (previous # <<>> /\ status \in {"done", "panic"}) => previous[1] = Outcome

\* A step writes nothing a later run reads: the package variable keeps its
\* text, a recognizer stays as it was constructed, and a recognizer that the
\* step constructs has the matcher of line 24 and no sub-recognizer.
NothingCarried ==
    /\ RpcLinePattern' = RpcLinePattern
    /\ Len(visitors') >= Len(visitors)
    /\ SubSeq(visitors', 1, Len(visitors)) = visitors
    /\ \A i \in (Len(visitors) + 1)..Len(visitors') :
           /\ visitors'[i].Visitors = <<>>
           /\ visitors'[i].RpcLineMatcher = MustCompile(RpcLineExpr)

\* C12: two runs of Visit on the same declaration line, the same namespace
\* and the same line sequence, each from a fresh source position and each
\* with its own recognizer, end alike: they return structurally identical
\* Rpcs (same parameters in the same order, same options with the same
\* bodies) and leave the cursor at the same position; no step of either run
\* changes the package-level pattern or a recognizer that exists, so nothing
\* kept in a recognizer or globally carries over from one run to the next.
C12_Determinism == []RunsAgree /\ [][NothingCarried]_vars

\* The second run has ended like the first: in each run a delegate was
\* constructed, called and has returned, and the original has returned its
\* Rpc with a recorded option.  The second run used the recognizer the
\* dispatcher constructed for it, while those of the first run still exist.
C12_Witness ==
    /\ Len(previous) = 1
    /\ status = "done"
    /\ Len(returned) = 2
    /\ TopRpc.Options # <<>>
    /\ TopRpc.InputParameters # <<>>
    /\ cursor = Len(lines)
    /\ cursor > 2
    /\ previous[1].returned = returned
    /\ Len(visitors) = 4
    /\ RpcLinePattern = RpcLineExpr

-----------------------------------------------------------------------------
(* Steps of the outer loop and of the option branch.                       *)

\* The innermost call is in the outer loop and this step pulls a line.
ScanPull ==
    /\ status = "running"
    /\ Top.state = "ScanningBlock"
    /\ cursor' = cursor + 1

\* C13: when the option line contains an "=", the initial accumulator is all
\* of the text after the first "=" on that line, also when that text itself
\* contains further "=" characters, and the initial brace depth is the count
\* of "{" minus the count of "}" in that whole text.
C13_InitialOptionBody ==
    [][ (/\ ScanPull
         /\ Pulled.Token # CloseBrace
         /\ HasPrefix(Pulled.Syntax, kOption)
         /\ OptionNameOk(Pulled.Syntax)
         /\ Contains(Pulled.Syntax, "=")) =>
            /\ status' = "running"
            /\ Puller.state = "AccumulatingOption"
            /\ Puller.optionBody = AfterFirstEquals(Pulled.Syntax)
            /\ Puller.braceCount = BraceDelta(AfterFirstEquals(Pulled.Syntax))
      ]_vars

\* C14: while an option is being accumulated, a pulled line whose trimmed text
\* is exactly ";" ends the accumulation whatever the current brace depth, and
\* its text is not appended to the option body; the option is then recorded if
\* its trimmed body is non-empty and the scanner is back in ScanningBlock.
C14_BareTerminator ==
    [][ (AccumPull /\ TrimSpace(Pulled.Syntax) = <<Semicolon>>) =>
            /\ status' = "running"
            /\ Len(stack') = Len(stack)
            /\ Puller.state = "ScanningBlock"
            /\ Puller.out = [Top.out EXCEPT !.Options = Flushed]
      ]_vars

\* The option  option (h) = {  /  p: 1  has been ended by a ";" line at brace
\* depth one and recorded without the ";".
C14_Witness ==
    /\ status = "running"
    /\ Top.state = "ScanningBlock"
    /\ Len(lines) = 4
    /\ lines[2].Token = OpenBrace
    /\ lines[4].Syntax = <<Semicolon>>
    /\ Len(Top.out.Options) = 1
    /\ Top.out.Options[1].Body = <<OpenBrace>> \o lines[3].Syntax
    /\ BraceDelta(Top.out.Options[1].Body) = 1

-----------------------------------------------------------------------------
(* The option list.                                                        *)

\* Every option of rpc has a body that is not empty after trimming and an
\* empty index.
RecordedOptionsOk(rpc) ==
    \A k \in 1..Len(rpc.Options) :
        /\ TrimSpace(rpc.Options[k].Body) # <<>>
        /\ rpc.Options[k].Index = <<>>

OptionListsOk ==
    /\ \A i \in 1..Len(stack) : RecordedOptionsOk(stack[i].out)
    /\ \A i \in 1..Len(returned) : RecordedOptionsOk(returned[i])

\* The body the option statement has accumulated when this step ends it: the
\* pulled line belongs to it unless it is a bare ";" or begins with rpc,
\* message or service.
FinalBody ==
    IF \/ cursor' = cursor
       \/ TrimSpace(Pulled.Syntax) = <<Semicolon>>
       \/ HasPrefix(TrimSpace(Pulled.Syntax), kRpc)
       \/ HasPrefix(TrimSpace(Pulled.Syntax), kMessage)
       \/ HasPrefix(TrimSpace(Pulled.Syntax), kService)
    THEN Top.optionBody
    ELSE Top.optionBody \o Pulled.Syntax

\* This step ends the option statement the innermost call is accumulating.
EndsStatement ==
    /\ status = "running"
    /\ Top.state = "AccumulatingOption"
    /\ Puller.state # "AccumulatingOption"

\* C15: in every reachable state, every RpcOption in an Rpc's option list has
\* a body that is non-empty after trimming and an empty option index; an
\* option statement whose accumulated body is empty or whitespace-only adds
\* nothing to the list.
C15_OptionList ==
    /\ []OptionListsOk
    /\ [][ (EndsStatement /\ TrimSpace(FinalBody) = <<>>) =>
               Puller.out = Top.out
         ]_vars

\* The statement  option (z)  /  ;  has ended with an empty body and has added
\* nothing to the list.
C15_Witness ==
    /\ status = "running"
    /\ Top.state = "ScanningBlock"
    /\ Len(lines) = 3
    /\ HasPrefix(lines[2].Syntax, kOption)
    /\ ~Contains(lines[2].Syntax, "=")
    /\ lines[3].Syntax = <<Semicolon>>
    /\ Top.out.Options = <<>>

\* C16: in the ScanningBlock state, a pulled line whose token is not
\* block-close and whose text does not begin with "option" leaves the Rpc
\* (name, parameters, options) unchanged and the scanner in ScanningBlock;
\* this holds also for a line that is itself an rpc, message or service
\* declaration, which is consumed without delegation and without producing
\* any entity.
C16_OtherLinesIgnored ==
    [][ (/\ ScanPull
         /\ Pulled.Token # CloseBrace
         /\ ~HasPrefix(Pulled.Syntax, kOption)) =>
            /\ stack' = stack
            /\ status' = status
            /\ err' = err
            /\ returned' = returned
      ]_vars

\* The outer loop has consumed a line that is an rpc declaration: no
\* recognizer was called on it and the Rpc is as the declaration step left it.
C16_Witness ==
    /\ status = "running"
    /\ Len(stack) = 1
    /\ Top.state = "ScanningBlock"
    /\ Len(lines) = 2
    /\ cursor = 2
    /\ CanVisit(lines[2])
    /\ Top.out.Options = <<>>
    /\ returned = <<>>

-----------------------------------------------------------------------------
(* The hand-off and what comes back from it.                               *)

\* C17: on the delegation path the value Visit returns is the original Rpc,
\* whose parameters and options are exactly those it had when the triggering
\* line was pulled plus at most the one flushed option; no parameter or option
\* built by the delegate recognizer appears in it, and the delegate's Rpc is
\* returned to nobody.
C17_DelegateResultDiscarded ==
    [][ /\ (AccumPull /\ StartsConstruct(Pulled)) =>
              /\ Puller.state = "Delegated"
              /\ Puller.out = [Top.out EXCEPT !.Options = Flushed]
        /\ \A i \in 1..Len(stack) :
              (stack[i].state = "Delegated" /\ i <= Len(stack')) =>
                  stack'[i] = stack[i]
        /\ (status = "running" /\ Len(stack') < Len(stack)) =>
              /\ stack' = SubSeq(stack, 1, Len(stack) - 1)
              /\ returned' = Append(returned, Top.out)
              /\ status' = IF Len(stack) = 1 THEN "done" ELSE "running"
      ]_vars

\* The delegate has recorded an option of its own and has returned; the
\* original has returned its Rpc with the one flushed option only.
C17_Witness ==
    /\ status = "done"
    /\ Len(returned) = 2
    /\ Len(returned[1].Options) = 1
    /\ Len(TopRpc.Options) = 1
    /\ TopRpc.Options[1].Body = <<OpenBrace>>
    /\ returned[1].Options[1].Name # TopRpc.Options[1].Name
    /\ returned[1].Name # TopRpc.Name
    /\ TopRpc.Name = DeclValues[1]
    /\ TopRpc.InputParameters = <<[Stream |-> FALSE, Type |-> DeclValues[2]]>>

\* The cursor stands after the last line the source has produced, and every
\* active call began at a line that has been pulled, later than its caller.
CursorOk ==
    /\ cursor = Len(lines)
    /\ \A i \in 1..Len(stack) :
          /\ stack[i].start <= cursor
          /\ stack[i].in = lines[stack[i].start]
          /\ i < Len(stack) =>
                /\ stack[i].state = "Delegated"
                /\ stack[i].start < stack[i + 1].start

\* C18: the original recognizer and every delegate advance the same line
\* source, one reader at a time: every line is pulled at most once and in
\* source order, the delegate's first pull is the line right after the
\* triggering line, and when the original Visit returns the cursor stands
\* after every line the delegate chain consumed.
C18_SingleSharedCursor ==
    /\ []CursorOk
    /\ [][ /\ cursor' \in {cursor, cursor + 1}
           /\ SubSeq(lines', 1, Len(lines)) = lines
           /\ cursor' = cursor + 1 =>
                 /\ status = "running"
                 /\ Top.state \in {"ScanningBlock", "AccumulatingOption"}
                 /\ \A i \in 1..(Len(stack) - 1) : stack'[i] = stack[i]
           /\ (status = "running" /\ Len(stack') > Len(stack)) =>
                 /\ cursor' = cursor + 1
                 /\ stack'[Len(stack')].start = cursor'
                 /\ stack'[Len(stack')].in = Pulled
           /\ (status = "running" /\ Top.start = cursor /\ cursor' = cursor + 1) =>
                 Pulled = lines'[Top.start + 1]
           /\ Len(stack') < Len(stack) =>
                 /\ cursor' = cursor
                 /\ lines' = lines
         ]_vars

\* A chain of two delegates has consumed lines and every call has returned:
\* the cursor stands after the last line pulled.
C18_Witness ==
    /\ status = "done"
    /\ Len(returned) = 3
    /\ cursor = 5
    /\ Len(lines) = 5
    /\ returned[2].Options # <<>>

-----------------------------------------------------------------------------
(* The end of the block.                                                   *)

\* The lines pulled so far begin with a well-formed block: the declaration
\* that opens it, zero or more complete option statements, and the
\* block-close line at position k.
ClosesAt(k) ==
    /\ lines[1].Token = OpenBrace
    /\ lines[k].Syntax = <<CloseBrace>>
    /\ Statements(SubSeq(lines, 2, k - 1)).ok

\* C19: for a declaration that opens a block whose body is well formed (zero
\* or more complete option statements, single-line or multi-line, then the
\* block-close line of that rpc), the last line Visit pulls is that
\* block-close line; no line after it is pulled, appended to an option body
\* or handed to a delegate.
C19_StaysInBlock ==
    \A k \in 2..Len(lines) : ClosesAt(k) => Len(lines) = k

====
